---- MODULE Spec2Model ----
(***************************************************************************)
(* usvg text: font selection (crates/usvg/src/text/fontdb.rs) and metric   *)
(* resolution (crates/usvg/src/text/mod.rs).                               *)
(*                                                                         *)
(* The font database (fontdb::Database) and the table parser (ttf_parser)  *)
(* are external crates.  A face's bytes are represented by what the parser *)
(* makes of them: a parse error, or the values the Face accessors return.  *)
(***************************************************************************)
EXTENDS Integers, Sequences, FiniteSets, TLC

VARIABLES
    db,               \* the fontdb::Database behind the FontProvider
    overflow_checks,  \* build profile: TRUE = arithmetic overflow panics (debug)
    call,             \* the last FontProvider call: operation, arguments, result, log
    pass              \* the caller's shaping pass: character, base face, used_fonts

vars == <<db, overflow_checks, call, pass>>

----------------------------------------------------------------------------
(* Bounds of the model.                                                    *)

\* Faces in the database.
MaxFaces == 2
\* Families in a Font's family list.
MaxFamilies == 2
\* Metric inputs are taken within this distance above each anchor value.
Spread == 1

----------------------------------------------------------------------------
(* Option, and the outcome of a call (a value, or a panic).                *)

None == [tag |-> "None"]
Some(x) == [tag |-> "Some", v |-> x]
Panic(msg) == [tag |-> "Panic", msg |-> msg]

is_some(o) == o.tag = "Some"
is_none(o) == o.tag = "None"

\* Option<Option<T>>::flatten, and the `?` on an Option<Option<T>>
flatten(o) == IF is_some(o) THEN o.v ELSE o

----------------------------------------------------------------------------
(* Machine integers.                                                       *)

I16Min == -(2 ^ 15)
I16Max == 2 ^ 15 - 1
U16Max == 2 ^ 16 - 1

\* Rust's integer `/`: the quotient truncated toward zero (b > 0).
TruncDiv(a, b) == IF a >= 0 THEN a \div b ELSE -((-a) \div b)

\* Two's-complement wrap of an integer to i16 (`as i16`, wrapping arithmetic).
WrapI16(n) == ((n - I16Min) % (2 ^ 16)) + I16Min

\* u16::try_from(n).ok()
u16_try_from(n) == IF n >= 0 /\ n <= U16Max THEN Some(n) ELSE None

\* NonZeroU16::new
NonZeroU16_new(n) == IF n # 0 THEN Some(n) ELSE None

\* .and_then(|x| u16::try_from(x).ok()) and .and_then(NonZeroU16::new)
and_then_u16(o) == IF is_some(o) THEN u16_try_from(o.v) ELSE None
and_then_non_zero(o) == IF is_some(o) THEN NonZeroU16_new(o.v) ELSE None

\* `f as i16` for a non-negative float that holds the integer n: saturating.
SaturateI16(n) == IF n > I16Max THEN I16Max ELSE IF n < I16Min THEN I16Min ELSE n

\* i16 `a - b`: panics with overflow checks on, wraps without them.
i16_sub(checks, a, b) ==
    IF a - b >= I16Min /\ a - b <= I16Max THEN Some(a - b)
    ELSE IF checks THEN Panic("attempt to subtract with overflow")
    ELSE Some(WrapI16(a - b))

\* i16 `-a`: only -I16Min overflows.
i16_neg(checks, a) ==
    IF a # I16Min THEN Some(-a)
    ELSE IF checks THEN Panic("attempt to negate with overflow")
    ELSE Some(I16Min)

\* `(f32::from(d) * 0.45) as i32`.  0.45f32 is 0.45 * (1 - 2.65e-8); the f32
\* product of an i16 by it rounds to the exact integer when 0.45 * d is one
\* and otherwise keeps its integer part (the fraction is a multiple of 0.05),
\* and `as i32` drops the fraction: the result is 9 * d / 20 truncated toward 0.
\* (Variant: the product rounded to the nearest integer.)
MutHeightRounded(d) == IF d >= 0 THEN (9 * d + 10) \div 20 ELSE -((9 * (-d) + 10) \div 20)
height_45_percent(d) == TruncDiv(9 * d, 20)

\* `(units_per_em as f32 / k).round() as i16` for k = 0.2 and k = 0.4: the f32
\* quotient is exactly 5 * upem (resp. 2.5 * upem), round() rounds half away
\* from zero, and the cast to i16 saturates.
subscript_default(upem) == SaturateI16(5 * upem)
superscript_default(upem) == SaturateI16((5 * upem + 1) \div 2)

----------------------------------------------------------------------------
(* fontdb::Database, as far as the FontProvider uses it.                   *)

\* Database::faces(): the face records in enumeration order.
faces(d) == d.faces

\* Database::face(id)
face(d, id) ==
    IF \E i \in 1..Len(d.faces) : d.faces[i].id = id
    THEN Some(d.faces[CHOOSE i \in 1..Len(d.faces) : d.faces[i].id = id])
    ELSE None

\* Database::with_face_data(id, p): None for an unknown face or when the
\* face's source cannot be read, else Some(p(data, face_index)).
\* Here: the data p is run on, if any.
db_with_face_data(d, id) ==
    LET f == face(d, id) IN
    IF is_none(f) \/ is_none(f.v.data) THEN None ELSE Some(f.v.data.v)

\* FontProviderExt::with_face_data over FontProvider::with_database, which for
\* a Database calls the closure once with the database itself: the data the
\* closure p is run on, if any; the output is then Some(p(data)).
with_face_data(d, id) == db_with_face_data(d, id)

\* ttf_parser::Face::parse(data, face_index).ok()
Face_parse(data) == data.parse

----------------------------------------------------------------------------
(* FontProviderExt::load_font                                              *)

\* x_height: the table value when it is a non-zero u16, else 45% of the height.
\* (Variant: the u16 is taken without NonZeroU16::new.)
MutXHeightAllowsZero(checks, font) ==
    LET table == and_then_u16(font.x_height)
        diff == i16_sub(checks, font.ascender, font.descender)
    IN  IF is_some(table) THEN table
        ELSE IF ~is_some(diff) THEN diff
        ELSE u16_try_from(height_45_percent(diff.v))
resolve_x_height(checks, font) ==
    LET table == and_then_non_zero(and_then_u16(font.x_height))
        diff == i16_sub(checks, font.ascender, font.descender)
    IN  IF is_some(table) THEN table
        ELSE IF ~is_some(diff) THEN diff
        ELSE and_then_non_zero(u16_try_from(height_45_percent(diff.v)))

\* NonZeroU16::new(units_per_em.get() / 12).unwrap()
default_thickness(upem) ==
    IF upem \div 12 # 0 THEN Some(upem \div 12)
    ELSE Panic("called Option::unwrap() on a None value")

\* (underline_position, underline_thickness)
\* (Variant: a table's thickness is taken as it is.)
MutUnderlineRaw(checks, font, upem) ==
    IF is_some(font.underline)
    THEN Some([position |-> font.underline.v.position,
               thickness |-> font.underline.v.thickness])
    ELSE Some([position |-> TruncDiv(-WrapI16(upem), 9), thickness |-> upem \div 12])
resolve_underline(checks, font, upem) ==
    IF is_some(font.underline)
    THEN LET metrics == font.underline.v
             table == and_then_non_zero(u16_try_from(metrics.thickness))
             thickness == IF is_some(table) THEN table ELSE default_thickness(upem)
         IN  IF is_some(thickness)
             THEN Some([position |-> metrics.position, thickness |-> thickness.v])
             ELSE thickness
    ELSE LET neg == i16_neg(checks, WrapI16(upem))
             thickness == default_thickness(upem)
         IN  IF ~is_some(neg) THEN neg
             ELSE IF ~is_some(thickness) THEN thickness
             ELSE Some([position |-> TruncDiv(neg.v, 9), thickness |-> thickness.v])

\* The closure of load_font, run on a face's data.
load_font_closure(checks, id, data) ==
    LET parsed == Face_parse(data) IN
    IF is_none(parsed) THEN None
    ELSE
    LET font == parsed.v
        units_per_em == NonZeroU16_new(font.units_per_em)
    IN
    IF is_none(units_per_em) THEN None
    ELSE
    LET x_height == resolve_x_height(checks, font) IN
    IF ~is_some(x_height) THEN x_height
    ELSE
    LET line_through_position ==
            IF is_some(font.strikeout) THEN font.strikeout.v
            ELSE TruncDiv(WrapI16(x_height.v), 2)
        underline == resolve_underline(checks, font, units_per_em.v)
    IN
    IF ~is_some(underline) THEN underline
    ELSE
    Some([id |-> id,
          units_per_em |-> units_per_em.v,
          ascent |-> font.ascender,
          descent |-> font.descender,
          x_height |-> x_height.v,
          underline_position |-> underline.v.position,
          underline_thickness |-> underline.v.thickness,
          line_through_position |-> line_through_position,
          subscript_offset |->
              IF is_some(font.subscript) THEN font.subscript.v
              ELSE subscript_default(units_per_em.v),
          superscript_offset |->
              IF is_some(font.superscript) THEN font.superscript.v
              ELSE superscript_default(units_per_em.v)])

\* load_font(id): with_face_data(id, closure)?  A panic inside the closure
\* unwinds through with_face_data.
load_font(d, checks, id) ==
    LET data == with_face_data(d, id)
        output == IF is_some(data)
                  THEN Some(load_font_closure(checks, id, data.v))
                  ELSE None
    IN  flatten(output)

----------------------------------------------------------------------------
(* The states of the database and of the caller.                           *)

NoCall == [op |-> "none"]
Idle == [active |-> FALSE]

\* A face record of the database (fontdb::FaceInfo) with its data.
FaceInfo(id, families, style, weight, stretch, data) ==
    [id |-> id, families |-> families, style |-> style, weight |-> weight,
     stretch |-> stretch, data |-> data]

\* What ttf_parser's Face reports for well-formed bytes.
FaceView(glyphs, upem, asc, desc, xh, strike, under, sub, sup) ==
    [glyphs |-> glyphs, units_per_em |-> upem, ascender |-> asc,
     descender |-> desc, x_height |-> xh, strikeout |-> strike,
     underline |-> under, subscript |-> sub, superscript |-> sup]

\* Readable bytes that parse to the view v; readable bytes that do not parse;
\* a source that cannot be read.
GoodData(v) == Some([parse |-> Some(v)])
BadData == Some([parse |-> None])
NoData == None

\* A Database holding the faces fs, with fontdb's default generic families.
Database(fs) ==
    [faces |-> fs,
     generic |-> [Serif |-> "Times New Roman", SansSerif |-> "Arial",
                  Cursive |-> "Comic Sans MS", Fantasy |-> "Impact",
                  Monospace |-> "Courier New"]]

\* The sequences over S of length n, and of length at most n.
SeqsOfLen(S, n) == [1..n -> S]
SeqsUpTo(S, n) == UNION { SeqsOfLen(S, k) : k \in 0..n }

EnglishUS == "English_UnitedStates"
Regular(id, name, data) ==
    FaceInfo(id, <<<<name, EnglishUS>>>>, "Normal", 400, "Normal", data)

----------------------------------------------------------------------------
(* Metric resolution: load_font over faces whose tables vary.              *)

Above(a) == a..(a + Spread)
Below(a) == (a - Spread)..a

\* units_per_em(): a u16.  load_font tests it for zero (mod.rs line 72) and
\* relies on the parser for non-zero values being at least 16 (line 103); the
\* OpenType head table allows 16..16384.
UnitsPerEmValues == {0} \cup Above(16) \cup {1000} \cup Below(2 ^ 14)
\* ascender(), descender(): any i16.
AscenderValues ==
    Above(I16Min) \cup {-20000} \cup Above(0) \cup {1854, 20000} \cup Below(I16Max)
DescenderValues == {I16Min, -20000, -434, 0, 20000}
\* x_height(): Option<i16>
XHeightValues == {None, Some(-7), Some(0), Some(450)}
\* underline_metrics(): Option<LineMetrics>
UnderlineValues ==
    {None} \cup {Some([position |-> -100, thickness |-> t]) : t \in {-3, 0, 50}}
\* strikeout_metrics() position, and the y_offset of subscript_metrics() and
\* superscript_metrics() (both from the same table, present or absent together).
StrikeoutValues == {None, Some(250)}
ScriptValues == {<<None, None>>, <<Some(140), Some(480)>>}

MetricViews ==
    { FaceView({"a"}, upem, asc, desc, xh, strike, under, ss[1], ss[2]) :
        upem \in UnitsPerEmValues, asc \in AscenderValues,
        desc \in DescenderValues, xh \in XHeightValues,
        strike \in StrikeoutValues, under \in UnderlineValues,
        ss \in ScriptValues }

MetricFaces ==
    { Regular(1, "Noto Sans", GoodData(v)) : v \in MetricViews }
    \cup { Regular(1, "Noto Sans", BadData), Regular(1, "Noto Sans", NoData) }

InitMetrics ==
    /\ db \in { Database(<<f>>) : f \in MetricFaces }
    /\ overflow_checks \in BOOLEAN
    /\ call = NoCall
    /\ pass = Idle

\* The layout stage resolves a face: load_font(id).
LoadFont(id) ==
    /\ ~pass.active /\ call = NoCall
    /\ call' = [op |-> "load_font", id |-> id,
                ret |-> load_font(db, overflow_checks, id)]
    /\ UNCHANGED <<db, overflow_checks, pass>>

\* The caller takes the result of a call and goes on.
Return ==
    /\ ~pass.active /\ call # NoCall
    /\ call' = NoCall
    /\ UNCHANGED <<db, overflow_checks, pass>>

\* Identifiers a caller holds: those of the faces, and one of no face.
KnownIds == { db.faces[i].id : i \in 1..Len(db.faces) }
CallerIds == KnownIds \cup {Len(db.faces) + 1}

NextMetrics ==
    \/ \E id \in CallerIds : LoadFont(id)
    \/ Return

SpecMetrics == InitMetrics /\ [][NextMetrics]_vars

----------------------------------------------------------------------------
(* Claims about load_font (resolve_metrics).                               *)

\* The parsed view of the face load_font was called on, if it has one.
LoadedView ==
    LET f == face(db, call.id) IN
    IF is_some(f) /\ is_some(f.v.data) THEN f.v.data.v.parse ELSE None

Resolved == call.op = "load_font" /\ is_some(call.ret)

\* The x-height table gives no strictly positive value.
NoTableXHeight(view) == is_none(view.x_height) \/ view.x_height.v <= 0

\* ascender - descender as a 16-bit signed value.
Height16(view) ==
    LET d == view.ascender - view.descender IN
    IF d > I16Max THEN d - 2 ^ 16 ELSE IF d < I16Min THEN d + 2 ^ 16 ELSE d

\* C1: whenever load_font returns a ResolvedFont, its units-per-em, x-height and
\* underline thickness are strictly positive; a face whose units-per-em is zero,
\* or whose x-height table is not positive and whose 45% height (of the 16-bit
\* ascent - descent) is below 1, yields no ResolvedFont.
C1_ResolvedMetricsPositive ==
    call.op = "load_font" =>
        /\ is_some(call.ret) =>
              /\ call.ret.v.units_per_em > 0
              /\ call.ret.v.x_height > 0
              /\ call.ret.v.underline_thickness > 0
        /\ is_some(LoadedView) =>
              LET view == LoadedView.v IN
              (\/ view.units_per_em = 0
               \/ (NoTableXHeight(view) /\ 9 * Height16(view) < 20))
                 => ~is_some(call.ret)

\* A face resolved although its x-height table holds 0 and its underline table
\* a non-positive thickness.
C1_Witness ==
    /\ Resolved
    /\ LoadedView.v.x_height = Some(0)
    /\ is_some(LoadedView.v.underline)
    /\ LoadedView.v.underline.v.thickness <= 0

\* C7: for a resolved face, an absent underline table gives position
\* -(units_per_em / 9) and thickness units_per_em / 12; a table gives its own
\* position, and its own thickness when that is strictly positive, else
\* units_per_em / 12.
C7_UnderlineFallback ==
    Resolved =>
        LET view == LoadedView.v
            upem == view.units_per_em
            r == call.ret.v
        IN  IF is_none(view.underline)
            THEN /\ r.underline_position = -(upem \div 9)
                 /\ r.underline_thickness = upem \div 12
            ELSE /\ r.underline_position = view.underline.v.position
                 /\ r.underline_thickness =
                        IF view.underline.v.thickness > 0
                        THEN view.underline.v.thickness
                        ELSE upem \div 12

\* A resolved face whose underline table holds a non-positive thickness.
C7_Witness ==
    /\ Resolved
    /\ is_some(LoadedView.v.underline)
    /\ LoadedView.v.underline.v.thickness <= 0
    /\ call.ret.v.underline_thickness = LoadedView.v.units_per_em \div 12

\* (ascent - descent) * 0.45 rounded to the nearest integer (half away from 0).
Round45(d) == IF d >= 0 THEN (9 * d + 10) \div 20 ELSE -((9 * (-d) + 10) \div 20)

\* C8 as stated, read only on the faces whose ascent - descent fits 16 bits: for
\* a resolved face without a positive x-height table, the x-height is
\* round((ascent - descent) * 0.45).
C8_Original ==
    (/\ Resolved
     /\ NoTableXHeight(LoadedView.v)
     /\ LoadedView.v.ascender - LoadedView.v.descender \in I16Min..I16Max) =>
        call.ret.v.x_height =
            Round45(LoadedView.v.ascender - LoadedView.v.descender)

\* C8 amended: for a resolved face without a positive x-height table, the
\* x-height is (ascent - descent) * 0.45 truncated toward zero, the difference
\* being the 16-bit signed one: x <= 0.45 * d < x + 1.
C8_XHeightTruncated ==
    (Resolved /\ NoTableXHeight(LoadedView.v)) =>
        LET x == call.ret.v.x_height
            d == Height16(LoadedView.v)
        IN  20 * x <= 9 * d /\ 9 * d < 20 * x + 20

\* A resolved face without x-height table whose 45% height has a fraction of
\* one half or more, so that truncating and rounding differ.
C8_Witness ==
    /\ Resolved
    /\ is_none(LoadedView.v.x_height)
    /\ LoadedView.v.ascender - LoadedView.v.descender \in 1..I16Max
    /\ (9 * (LoadedView.v.ascender - LoadedView.v.descender)) % 20 >= 10

\* C9 as stated: load_font ends with a complete ResolvedFont or with an absent
\* result, never with a panic.
C9_NeverPanics ==
    call.op = "load_font" => call.ret.tag \in {"Some", "None"}

----------------------------------------------------------------------------
(* FontProvider for Database: find_font                                    *)

\* usvg's Font names families, stretch and style by their CSS keywords here;
\* fontdb's Family, Stretch and Style by their variant names.
GenericFamilies == {"serif", "sans-serif", "cursive", "fantasy", "monospace"}
Generic(g) == [generic |-> g]
Named(s) == [named |-> s]
is_named(family) == "named" \in DOMAIN family

Family(variant) == [family |-> variant]
FamilyName(s) == [family |-> "Name", name |-> s]

\* The match on FontFamily in the loop over font.families.
family_token(family) ==
    IF is_named(family) THEN FamilyName(family.named)
    ELSE CASE family.generic = "serif" -> Family("Serif")
           [] family.generic = "sans-serif" -> Family("SansSerif")
           [] family.generic = "cursive" -> Family("Cursive")
           [] family.generic = "fantasy" -> Family("Fantasy")
           [] family.generic = "monospace" -> Family("Monospace")

\* name_list: every family of the font in order, then the default font.
\* (Variant: serif is appended unless the list already ends with it.)
MutSerifUnlessLast(font) ==
    LET list == [i \in 1..Len(font.families) |-> family_token(font.families[i])] IN
    IF Len(list) > 0 /\ list[Len(list)] = Family("Serif") THEN list
    ELSE Append(list, Family("Serif"))
name_list(font) ==
    Append([i \in 1..Len(font.families) |-> family_token(font.families[i])],
           Family("Serif"))

fontdb_stretch(stretch) ==
    CASE stretch = "ultra-condensed" -> "UltraCondensed"
      [] stretch = "extra-condensed" -> "ExtraCondensed"
      [] stretch = "condensed" -> "Condensed"
      [] stretch = "semi-condensed" -> "SemiCondensed"
      [] stretch = "normal" -> "Normal"
      [] stretch = "semi-expanded" -> "SemiExpanded"
      [] stretch = "expanded" -> "Expanded"
      [] stretch = "extra-expanded" -> "ExtraExpanded"
      [] stretch = "ultra-expanded" -> "UltraExpanded"

fontdb_style(style) ==
    CASE style = "normal" -> "Normal"
      [] style = "italic" -> "Italic"
      [] style = "oblique" -> "Oblique"

\* The fontdb::Query find_font submits.
find_font_query(font) ==
    [families |-> name_list(font),
     weight |-> font.weight,
     stretch |-> fontdb_stretch(font.stretch),
     style |-> fontdb_style(font.style)]

\* Database::family_name: a generic family stands for the family the database
\* is configured with; a name stands for itself.
family_name(d, token) ==
    IF token.family = "Name" THEN token.name ELSE d.generic[token.family]

has_family(f, name) == \E i \in 1..Len(f.families) : f.families[i][1] = name

\* Database::query: the families are tried in order; the first one that has
\* faces decides, and one of its faces (the nearest in weight, stretch and
\* style, which this model leaves open) is returned.  The set of outcomes.
query(d, q) ==
    LET Candidates(k) ==
            { i \in 1..Len(d.faces) :
                has_family(d.faces[i], family_name(d, q.families[k])) }
        hits == { k \in 1..Len(q.families) : Candidates(k) # {} }
    IN  IF hits = {} THEN {None}
        ELSE LET first == CHOOSE k \in hits : \A j \in hits : k <= j
             IN  { Some(d.faces[i].id) : i \in Candidates(first) }

\* FontFamily's Display.
to_string(family) == IF is_named(family) THEN family.named ELSE family.generic

RECURSIVE join(_, _)
join(strings, sep) ==
    IF Len(strings) = 0 THEN ""
    ELSE IF Len(strings) = 1 THEN strings[1]
    ELSE strings[1] \o sep \o join(Tail(strings), sep)

\* The log::warn! of find_font, emitted when the query found nothing.
\* (Variant: the warning is emitted whatever the query found.)
MutWarnOnFallback(font, id) ==
    <<"No match for '"
        \o join([i \in 1..Len(font.families) |-> to_string(font.families[i])], ", ")
        \o "' font-family.">>
find_font_log(font, id) ==
    IF is_none(id)
    THEN <<"No match for '"
            \o join([i \in 1..Len(font.families) |-> to_string(font.families[i])], ", ")
            \o "' font-family.">>
    ELSE <<>>

\* find_font(font), for the face `id` the database's query answers with.
FindFont(font) ==
    /\ ~pass.active /\ call = NoCall
    /\ \E id \in query(db, find_font_query(font)) :
          call' = [op |-> "find_font", font |-> font,
                   query |-> find_font_query(font),
                   ret |-> id, log |-> find_font_log(font, id)]
    /\ UNCHANGED <<db, overflow_checks, pass>>

PlainView == FaceView({"a"}, 1000, 800, -200, None, None, None, None, None)

\* Primary selection: find_font over databases whose faces vary in family.
FamilyNames == {"Arial", "Times New Roman", "Noto Sans"}

FamilyDatabases ==
    { Database([i \in 1..Len(names) |-> Regular(i, names[i], GoodData(PlainView))]) :
        names \in SeqsUpTo(FamilyNames, MaxFaces) }

FontFamilies == { Generic(g) : g \in GenericFamilies } \cup {Named("Arial"), Named("Noto Sans")}
Stretches ==
    {"ultra-condensed", "extra-condensed", "condensed", "semi-condensed", "normal",
     "semi-expanded", "expanded", "extra-expanded", "ultra-expanded"}
Styles == {"normal", "italic", "oblique"}

\* The Fonts a document asks for: every family list with the regular style,
\* and every weight, stretch and style with one family list.
Fonts ==
    { [families |-> fs, weight |-> 400, stretch |-> "normal", style |-> "normal"] :
        fs \in SeqsUpTo(FontFamilies, MaxFamilies) }
    \cup
    { [families |-> <<Named("Arial")>>, weight |-> w, stretch |-> st, style |-> sl] :
        w \in {400, 700}, st \in Stretches, sl \in Styles }

\* (Selection does no arithmetic: the build profile is left at release.)
InitFind ==
    /\ db \in FamilyDatabases
    /\ overflow_checks = FALSE
    /\ call = NoCall
    /\ pass = Idle

NextFind ==
    \/ call = NoCall /\ \E font \in Fonts : FindFont(font)
    \/ Return

SpecFind == InitFind /\ [][NextFind]_vars

----------------------------------------------------------------------------
(* FontProvider for Database: find_fallback_font                           *)

\* used_fonts.contains(&face.id)
\* (Variants: only the first, or only the last, used font is looked at.)
MutUsedFirstOnly(used_fonts, id) == Len(used_fonts) > 0 /\ used_fonts[1] = id
MutUsedLastOnly(used_fonts, id) ==
    Len(used_fonts) > 0 /\ used_fonts[Len(used_fonts)] = id
contains(used_fonts, id) == \E i \in 1..Len(used_fonts) : used_fonts[i] = id

\* The test that makes the scan skip a face for its style.
\* (Variant: || in place of &&.)
MutAnyDiffers(base_face, f) ==
    \/ base_face.style # f.style
    \/ base_face.weight # f.weight
    \/ base_face.stretch # f.stretch
style_mismatch(base_face, f) ==
    /\ base_face.style # f.style
    /\ base_face.weight # f.weight
    /\ base_face.stretch # f.stretch

\* The closure given to with_face_data: parse, then glyph_index(c).
has_char_closure(data, c) ==
    LET parsed == Face_parse(data) IN
    IF is_none(parsed) THEN None
    ELSE IF c \notin parsed.v.glyphs THEN None
    ELSE Some(TRUE)

\* has_char: with_face_data(..).flatten().unwrap_or(false)
\* (Variant: unwrap_or(true).)
MutHasCharDefaultTrue(d, id, c) ==
    LET data == with_face_data(d, id)
        r == flatten(IF is_some(data) THEN Some(has_char_closure(data.v, c)) ELSE None)
    IN  IF is_some(r) THEN r.v ELSE TRUE
has_char(d, id, c) ==
    LET data == with_face_data(d, id)
        r == flatten(IF is_some(data) THEN Some(has_char_closure(data.v, c)) ELSE None)
    IN  IF is_some(r) THEN r.v ELSE FALSE

\* families.iter().find(|f| f.1 == English_UnitedStates).unwrap_or(&default[0])
family_or(families, default) ==
    IF \E i \in 1..Len(families) : families[i][2] = EnglishUS
    THEN LET first == CHOOSE i \in 1..Len(families) :
                 /\ families[i][2] = EnglishUS
                 /\ \A j \in 1..(i - 1) : families[j][2] # EnglishUS
         IN  families[first]
    ELSE default[1]

\* The loop over self.faces(), from the i-th face on: the result and the log.
RECURSIVE fallback_scan(_, _, _, _, _)
fallback_scan(d, c, base_font_id, used_fonts, i) ==
    IF i > Len(faces(d)) THEN [ret |-> None, log |-> <<>>]
    ELSE
    LET f == faces(d)[i] IN
    IF contains(used_fonts, f.id)
    THEN fallback_scan(d, c, base_font_id, used_fonts, i + 1)
    ELSE
    LET base_face == face(d, base_font_id) IN
    IF is_none(base_face) THEN [ret |-> None, log |-> <<>>]
    ELSE IF style_mismatch(base_face.v, f)
    THEN fallback_scan(d, c, base_font_id, used_fonts, i + 1)
    ELSE IF ~has_char(d, f.id, c)
    THEN fallback_scan(d, c, base_font_id, used_fonts, i + 1)
    ELSE
    LET base_family == family_or(base_face.v.families, base_face.v.families)
        new_family == family_or(f.families, base_face.v.families)
    IN  [ret |-> Some(f.id),
         log |-> <<"Fallback from " \o base_family[1] \o " to "
                     \o new_family[1] \o ".">>]

find_fallback_font(d, c, base_font_id, used_fonts) ==
    fallback_scan(d, c, base_font_id, used_fonts, 1)

----------------------------------------------------------------------------
(* A shaping pass of the layout stage: it asks for a fallback face for one *)
(* character and adds every face it gets to used_fonts.                    *)

BeginPass(c, base_font_id, used_fonts) ==
    /\ ~pass.active /\ call = NoCall
    /\ pass' = [active |-> TRUE, c |-> c, base_font_id |-> base_font_id,
                used_fonts |-> used_fonts, given |-> Len(used_fonts),
                ended |-> FALSE]
    /\ UNCHANGED <<db, overflow_checks, call>>

FallbackStep ==
    /\ pass.active /\ ~pass.ended
    /\ LET r == find_fallback_font(db, pass.c, pass.base_font_id, pass.used_fonts)
       IN  /\ call' = [op |-> "find_fallback_font", c |-> pass.c,
                       base_font_id |-> pass.base_font_id,
                       used_fonts |-> pass.used_fonts,
                       ret |-> r.ret, log |-> r.log]
           /\ pass' = IF is_some(r.ret)
                      THEN [pass EXCEPT !.used_fonts = Append(@, r.ret.v)]
                      ELSE [pass EXCEPT !.ended = TRUE]
    /\ UNCHANGED <<db, overflow_checks>>

\* The run is over: used_fonts is dropped.
EndPass ==
    /\ pass.active /\ pass.ended
    /\ pass' = Idle
    /\ call' = NoCall
    /\ UNCHANGED <<db, overflow_checks>>

\* Fallback selection: databases whose faces vary in style, weight, stretch
\* and in what their data holds.
Chars == {"a", "e-acute"}
CoverageView(glyphs) == FaceView(glyphs, 1000, 800, -200, None, None, None, None, None)

\* The family names of the i-th face: with or without a U.S. English entry.
FamiliesOf(i) ==
    CASE i % 3 = 1 -> <<<<"Noto Sans", EnglishUS>>>>
      [] i % 3 = 2 -> <<<<"Schrift", "German_Germany">>, <<"Script", EnglishUS>>>>
      [] OTHER -> <<<<"Mincho", "Japanese_Japan">>>>

\* Faces of every style, weight and stretch that cover both characters, and
\* regular and bold-italic-condensed faces whose data cannot be read, does not
\* parse or covers one character only.
StyleKinds ==
    [style : {"Normal", "Italic"}, weight : {400, 700},
     stretch : {"Normal", "Condensed"}, data : {GoodData(CoverageView(Chars))}]
    \cup
    [style : {"Normal"}, weight : {400}, stretch : {"Normal"},
     data : {NoData, BadData, GoodData(CoverageView({"a"}))}]
    \cup
    [style : {"Italic"}, weight : {700}, stretch : {"Condensed"},
     data : {GoodData(CoverageView({"a"}))}]

StyleDatabases ==
    { Database([i \in 1..Len(kinds) |->
                  FaceInfo(i, FamiliesOf(i), kinds[i].style, kinds[i].weight,
                           kinds[i].stretch, kinds[i].data)]) :
        kinds \in SeqsUpTo(StyleKinds, MaxFaces) }

Init ==
    /\ db \in StyleDatabases
    /\ overflow_checks = FALSE
    /\ call = NoCall
    /\ pass = Idle

Next ==
    \/ \E c \in Chars, base \in CallerIds,
          used \in {<<>>} \cup { <<id>> : id \in CallerIds } :
          BeginPass(c, base, used)
    \/ FallbackStep
    \/ EndPass

Spec == Init /\ [][Next]_vars

----------------------------------------------------------------------------
(* Claims about find_fallback_font (find_fallback_face).                   *)

Fallback == call.op = "find_fallback_font"
FallbackFound == Fallback /\ is_some(call.ret)

\* The position in the enumeration of the face with identifier id.
PositionOf(id) == CHOOSE i \in 1..Len(db.faces) : db.faces[i].id = id
IsFace(id) == \E i \in 1..Len(db.faces) : db.faces[i].id = id

Used(id) == \E k \in 1..Len(call.used_fonts) : call.used_fonts[k] = id

\* The face's data can be read, parses, and maps the character to a glyph.
Covers(f, c) ==
    /\ f.data.tag = "Some"
    /\ f.data.v.parse.tag = "Some"
    /\ c \in f.data.v.parse.v.glyphs

AllThreeDiffer(b, f) ==
    b.style # f.style /\ b.weight # f.weight /\ b.stretch # f.stretch

\* C2: find_fallback_font never returns an identifier that is in used_fonts.
C2_NeverReturnsUsed ==
    FallbackFound => ~Used(call.ret.v)

\* A face was returned although an earlier face covers the character and has
\* the base face's style, weight and stretch: that face is in used_fonts.
C2_Witness ==
    /\ FallbackFound
    /\ IsFace(call.base_font_id)
    /\ \E i \in 1..(PositionOf(call.ret.v) - 1) :
          /\ Used(db.faces[i].id)
          /\ Covers(db.faces[i], call.c)
          /\ db.faces[i].style = db.faces[PositionOf(call.base_font_id)].style
          /\ db.faces[i].weight = db.faces[PositionOf(call.base_font_id)].weight
          /\ db.faces[i].stretch = db.faces[PositionOf(call.base_font_id)].stretch

\* C3: the face find_fallback_font returns has data that can be read, that
\* parses, and that maps the requested character to a glyph.
C3_ReturnedFaceCovers ==
    FallbackFound =>
        /\ IsFace(call.ret.v)
        /\ Covers(db.faces[PositionOf(call.ret.v)], call.c)

\* A face was returned after an earlier unused face of the base face's style,
\* weight and stretch was passed over because it does not cover the character.
C3_Witness ==
    /\ FallbackFound
    /\ IsFace(call.base_font_id)
    /\ \E i \in 1..(PositionOf(call.ret.v) - 1) :
          /\ ~Used(db.faces[i].id)
          /\ ~AllThreeDiffer(db.faces[PositionOf(call.base_font_id)], db.faces[i])
          /\ ~Covers(db.faces[i], call.c)

Returned == SubSeq(pass.used_fonts, pass.given + 1, Len(pass.used_fonts))

C10_State ==
    /\ pass.active =>
          /\ \A i, j \in 1..Len(Returned) : i # j => Returned[i] # Returned[j]
          /\ \A i \in 1..Len(Returned) : IsFace(Returned[i])
          /\ \A i, j \in 1..Len(Returned) :
                i < j => PositionOf(Returned[i]) < PositionOf(Returned[j])
          /\ Len(Returned) <= Len(db.faces)
          /\ pass.ended => (Fallback /\ is_none(call.ret))
    /\ FallbackFound =>
          /\ IsFace(call.ret.v) /\ IsFace(call.base_font_id)
          /\ LET base == db.faces[PositionOf(call.base_font_id)]
                 Eligible(i) ==
                     /\ ~Used(db.faces[i].id)
                     /\ ~AllThreeDiffer(base, db.faces[i])
                     /\ Covers(db.faces[i], call.c)
             IN  /\ Eligible(PositionOf(call.ret.v))
                 /\ \A j \in 1..(PositionOf(call.ret.v) - 1) : ~Eligible(j)

\* C10: in a pass that adds every returned face to used_fonts, the returned
\* identifiers are pairwise distinct and come in enumeration order, each the
\* first face still eligible; there are never more of them than faces, so the
\* pass ends with a no-match after at most that many; the database never
\* changes.
C10_ShapingPass == [](C10_State) /\ [][db' = db]_vars

\* A pass over a database of at least two faces that was handed every face and
\* then ended with a no-match.
C10_Witness ==
    /\ pass.active /\ pass.ended
    /\ Len(db.faces) >= 2
    /\ Len(Returned) = Len(db.faces)

----------------------------------------------------------------------------
(* Claims about find_font (find_primary_face).                             *)

\* The token of the database a requested family stands for.
Translates(family, token) ==
    \/ "named" \in DOMAIN family /\ token = [family |-> "Name", name |-> family.named]
    \/ "generic" \in DOMAIN family /\
         \/ family.generic = "serif" /\ token = [family |-> "Serif"]
         \/ family.generic = "sans-serif" /\ token = [family |-> "SansSerif"]
         \/ family.generic = "cursive" /\ token = [family |-> "Cursive"]
         \/ family.generic = "fantasy" /\ token = [family |-> "Fantasy"]
         \/ family.generic = "monospace" /\ token = [family |-> "Monospace"]

\* C5: the family list find_font submits is the font's families translated one
\* to one in order, followed by exactly one generic serif token.
C5_NameListEndsWithSerif ==
    call.op = "find_font" =>
        LET requested == call.font.families
            list == call.query.families
        IN  /\ Len(list) = Len(requested) + 1
            /\ \A i \in 1..Len(requested) : Translates(requested[i], list[i])
            /\ list[Len(list)] = [family |-> "Serif"]

\* A font whose family list already ends in serif.
C5_Witness ==
    /\ call.op = "find_font"
    /\ Len(call.font.families) > 0
    /\ call.font.families[Len(call.font.families)] = [generic |-> "serif"]

\* The family of the database a requested family names.
RequestedName(family) ==
    IF "named" \in DOMAIN family THEN family.named
    ELSE CASE family.generic = "serif" -> db.generic.Serif
           [] family.generic = "sans-serif" -> db.generic.SansSerif
           [] family.generic = "cursive" -> db.generic.Cursive
           [] family.generic = "fantasy" -> db.generic.Fantasy
           [] family.generic = "monospace" -> db.generic.Monospace

InFamily(f, name) == \E k \in 1..Len(f.families) : f.families[k][1] = name

\* No requested family has a face, but the serif family has one.
OnlySerifMatches ==
    /\ call.op = "find_font"
    /\ \A i \in 1..Len(call.font.families), n \in 1..Len(db.faces) :
          ~InFamily(db.faces[n], RequestedName(call.font.families[i]))
    /\ \E n \in 1..Len(db.faces) : InFamily(db.faces[n], db.generic.Serif)

ReturnsSerifFace ==
    /\ is_some(call.ret)
    /\ \E n \in 1..Len(db.faces) :
          db.faces[n].id = call.ret.v /\ InFamily(db.faces[n], db.generic.Serif)

\* The warning that names the requested families, comma-separated, in order.
NoMatchWarning ==
    "No match for '"
      \o join([i \in 1..Len(call.font.families) |->
                 IF "named" \in DOMAIN call.font.families[i]
                 THEN call.font.families[i].named
                 ELSE call.font.families[i].generic], ", ")
      \o "' font-family."

\* C6 as stated: when only the appended serif fallback matches, find_font
\* returns a serif face and emits the warning naming the requested families.
C6_Original ==
    OnlySerifMatches => (ReturnsSerifFace /\ call.log = <<NoMatchWarning>>)

\* C6 amended: when only the appended serif fallback matches, find_font
\* returns a serif face and emits no warning; the warning naming the requested
\* families is emitted exactly when find_font returns no match.
C6_SerifFallbackIsSilent ==
    call.op = "find_font" =>
        /\ OnlySerifMatches => (ReturnsSerifFace /\ call.log = <<>>)
        /\ call.log = (IF is_none(call.ret) THEN <<NoMatchWarning>> ELSE <<>>)

\* "Arial", sans-serif was asked of a database that has serif faces only, and
\* a face came back.
C6_Witness ==
    /\ OnlySerifMatches
    /\ call.font.families = <<[named |-> "Arial"], [generic |-> "sans-serif"]>>
    /\ Len(db.faces) = 1
    /\ is_some(call.ret)

====
